---- MODULE Spec2Model ----
(***************************************************************************)
(* Status Record Service (entity_status.go): the three request handlers    *)
(* insertStatus, getStatus and getCurrentStatus over the datastore kind    *)
(* "statusentity".                                                         *)
(*                                                                         *)
(* Time is counted in ticks, TicksPerSec ticks to the second, so that an   *)
(* instant can carry a fraction of a second.  The zero value of time.Time  *)
(* is ZeroTime; instants before it (year 0000) are negative.               *)
(*                                                                         *)
(* A wire string is a record [form, t]:                                    *)
(*   "empty"    the empty string / an absent parameter                     *)
(*   "layout"   a date-time written in dateTimeLayout, whole seconds, UTC  *)
(*   "fraction" the same with a fractional-second field after the seconds  *)
(*   "offset"   an RFC3339 date-time with a numeric zone offset            *)
(*   "garbage"  anything else, e.g. "not-a-date"                           *)
(* t is the instant the string denotes (0 for "empty" and "garbage").      *)
(*                                                                         *)
(* A Put is atomic.  The entities are stored under the parent key          *)
(* statusroot, but both queries are kind-wide queries without Ancestor(),  *)
(* which the datastore answers from its indexes: an entity shows up in a   *)
(* query only once its index entries have been applied, some time after    *)
(* the Put has returned.  visible is the set of entities the indexes hold. *)
(* A submit is two steps, the mapping (which reads the clock) and the Put, *)
(* so that submits interleave; a query is one step.                        *)
(***************************************************************************)
EXTENDS Integers, Sequences, FiniteSets, Bags

\* ---------------------------------------------------------------- bounds
\* ids the datastore can hand out: at most MaxId submits are in the system
MaxId == 2
\* the server clock runs from InitClock to MaxClock
MaxClock == 4

\* ------------------------------------------------------ program constants
TicksPerSec == 2
ZeroTime == 0
StatusCreated == 201
StatusOK == 200
StatusBadRequest == 400
StatusInternalServerError == 500
StatusServiceUnavailable == 503

\* the clock reading at start-up: a second and a half after the zero time
InitClock == ZeroTime + TicksPerSec + 1

\* ------------------------------------------------------------ wire strings
EmptyString == [form |-> "empty", t |-> 0]
Garbage == [form |-> "garbage", t |-> 0]
Layout(t) == [form |-> "layout", t |-> t]
Fraction(t) == [form |-> "fraction", t |-> t]
Offset(t) == [form |-> "offset", t |-> t]

\* bodies a client sends to submit: {status, changeDate} (status 100 = ok,
\* 300 = service down)
Body(status, changeDate) == [status |-> status, changeDate |-> changeDate]
SubmitInputs ==
    {Body(100, EmptyString), Body(100, Garbage), Body(300, Layout(-2)),
     Body(100, Layout(2)), Body(300, Layout(2)), Body(100, Fraction(3))}
\* dateFrom query parameters a client sends
DateFromInputs ==
    {EmptyString, Garbage, Layout(-2), Layout(2), Fraction(3), Offset(8)}
\* outcomes of a datastore call
Errs == {"nil", "mismatch", "quota", "other"}
PutErrs == {"nil", "quota", "other"}

VARIABLES
    store,     \* the entities of kind statusentity: [id, Status, ChangeDate]
    visible,   \* the entities the indexes hold: what a kind-wide query sees
    pending,   \* bag of submits between mapAPItoDBStatus and datastore.Put
    clock,     \* the server's time.Now()
    acked,     \* ghost: the submits answered 201: [id, status, changeDate]
    last       \* ghost: the request the last step completed, and its response

vars == <<store, visible, pending, clock, acked, last>>

\* ----------------------------------------------------------- time.Parse
\* time.Parse(dateTimeLayout, s): the layout has no zone and no fraction; Go
\* accepts a fractional-second field after the seconds all the same.  On an
\* error the returned Time is the zero value.
ParseLayout(s) ==
    IF s.form \in {"layout", "fraction"}
    THEN [t |-> s.t, err |-> FALSE]
    ELSE [t |-> ZeroTime, err |-> TRUE]

\* time.Parse(time.RFC3339, s)
ParseRFC3339(s) ==
    IF s.form \in {"layout", "fraction", "offset"}
    THEN [t |-> s.t, err |-> FALSE]
    ELSE [t |-> ZeroTime, err |-> TRUE]

\* t.Format(dateTimeLayout): the layout prints whole seconds only
FormatLayout(t) == Layout((t \div TicksPerSec) * TicksPerSec)

\* ------------------------------------------------------------- mapping
mapAPItoDBStatus(api, now) ==
    [Status |-> api.status,
     ChangeDate |-> IF api.changeDate # EmptyString
                    THEN ParseLayout(api.changeDate).t
                    ELSE now]

\* api is a fresh StatusEntityAPIv1: its Id is still the zero value
mapDBtoAPIStatus(db) ==
    [id |-> 0, status |-> db.Status,
     changeDate |-> FormatLayout(db.ChangeDate)]

\* ------------------------------------------------------------ datastore
\* a faulty key: built complete, from an id that may be in use
AllocateIDs_Any(st) == 1..MaxId

\* datastore.Put with an incomplete key: the datastore allocates an id that
\* no entity of the kind has.
AllocateIDs(st) == (1..MaxId) \ {e.id : e \in st}

\* datastore.Put(ctx, key, entity): the entity is written under the key and
\* replaces the entity that had the key, if any
Put(st, id, db) ==
    {e \in st : e.id # id}
        \cup {[id |-> id, Status |-> db.Status, ChangeDate |-> db.ChangeDate]}

\* Order("-ChangeDate"): descending ChangeDate, equal values in key order
Precedes(x, y) ==
    \/ x.ChangeDate > y.ChangeDate
    \/ x.ChangeDate = y.ChangeDate /\ x.id < y.id

RECURSIVE SortDesc(_)
SortDesc(S) ==
    IF S = {} THEN <<>>
    ELSE LET e == CHOOSE x \in S : \A y \in S \ {x} : Precedes(x, y)
         IN  <<e>> \o SortDesc(S \ {e})

\* Filter("ChangeDate >=", date)
Matches(e, q) == q.filter => e.ChangeDate >= q.date

\* Limit(n); limit 0 stands for a query without Limit
Limited(s, limit) ==
    IF limit = 0 \/ Len(s) <= limit THEN s ELSE SubSeq(s, 1, limit)

\* a query without Ancestor() over the entities st that the indexes hold
RunQuery(st, q) == Limited(SortDesc({e \in st : Matches(e, q)}), q.limit)

\* q.GetAll(ctx, &statusOnDBList): keys and entities, index by index.  With
\* ErrFieldMismatch the entities are still delivered; any other error
\* delivers nothing.
GetAll(st, q, err) ==
    IF err \in {"nil", "mismatch"} THEN RunQuery(st, q) ELSE <<>>

IsOverQuota(err) == err = "quota"

isErrFieldMismatch(err) == err = "mismatch"

\* addPlainTextError(response, status, text): one plain-text response with
\* the given status
addPlainTextError(status) == <<status>>

\* a faulty StorageErrorStatus: every failure is an internal failure
StorageErrorStatus_Always500(err) == StatusInternalServerError

\* the if/else that answers a failed datastore call
StorageErrorStatus(err) ==
    IF IsOverQuota(err) THEN StatusServiceUnavailable
    ELSE StatusInternalServerError

\* ------------------------------------------------------------ responses
\* codes: the status codes written to the response, in order; fault: the
\* handler ended in a run-time panic; queried: a datastore call was issued.
NoResponse ==
    [op |-> "none", in |-> EmptyString, err |-> "nil", codes |-> <<>>,
     body |-> <<>>, id |-> 0, fault |-> FALSE, queried |-> FALSE]

Response(op, in, err, codes, body, id, fault, queried) ==
    [op |-> op, in |-> in, err |-> err, codes |-> codes, body |-> body,
     id |-> id, fault |-> fault, queried |-> queried]

\* the loop that maps the entities back and takes the id from the key
MapBack(got) ==
    [i \in 1..Len(got) |->
        [mapDBtoAPIStatus(got[i]) EXCEPT !.id = got[i].id]]

\* ------------------------------------------------------------- handlers
\* a faulty getStatus: the error of time.Parse is ignored, as on the write
\* path
getStatus_Lenient(st, dateString, err) ==
    LET p == ParseRFC3339(dateString)
        date == IF dateString # EmptyString THEN p.t ELSE ZeroTime
        q == [filter |-> TRUE, date |-> date, limit |-> 0]
        got == GetAll(st, q, err)
    IN  IF err # "nil" /\ ~isErrFieldMismatch(err)
        THEN Response("queryAll", dateString, err,
                      addPlainTextError(StorageErrorStatus(err)), <<>>, 0,
                      FALSE, TRUE)
        ELSE Response("queryAll", dateString, err, <<StatusOK>>,
                      MapBack(got), 0, FALSE, TRUE)

getStatus(st, dateString, err) ==
    LET p == ParseRFC3339(dateString) IN
    IF dateString # EmptyString /\ p.err
    THEN Response("queryAll", dateString, err,
                  addPlainTextError(StatusBadRequest), <<>>, 0, FALSE, FALSE)
    ELSE
      LET date == IF dateString # EmptyString THEN p.t ELSE ZeroTime
          q == [filter |-> TRUE, date |-> date, limit |-> 0]
          got == GetAll(st, q, err)
      IN  IF err # "nil" /\ ~isErrFieldMismatch(err)
          THEN Response("queryAll", dateString, err,
                        addPlainTextError(StorageErrorStatus(err)), <<>>, 0,
                        FALSE, TRUE)
          ELSE Response("queryAll", dateString, err, <<StatusOK>>,
                        MapBack(got), 0, FALSE, TRUE)

\* a faulty getCurrentStatus: field mismatch is answered like any other
\* datastore error
getCurrentStatus_Strict(st, err) ==
    LET q == [filter |-> FALSE, date |-> ZeroTime, limit |-> 1]
        got == GetAll(st, q, err)
    IN  IF err # "nil"
        THEN Response("queryLatest", EmptyString, err,
                      addPlainTextError(StorageErrorStatus(err)), <<>>, 0,
                      FALSE, TRUE)
        ELSE IF Len(got) = 0
        THEN Response("queryLatest", EmptyString, err, <<>>, <<>>, 0, TRUE,
                      TRUE)
        ELSE Response("queryLatest", EmptyString, err, <<StatusOK>>,
                      MapBack(SubSeq(got, 1, 1)), 0, FALSE, TRUE)

\* another faulty getCurrentStatus: the result is mapped back in a loop, as
\* in getStatus, so an empty result is answered 200 with an empty list
getCurrentStatus_Guarded(st, err) ==
    LET q == [filter |-> FALSE, date |-> ZeroTime, limit |-> 1]
        got == GetAll(st, q, err)
    IN  IF err # "nil" /\ ~isErrFieldMismatch(err)
        THEN Response("queryLatest", EmptyString, err,
                      addPlainTextError(StorageErrorStatus(err)), <<>>, 0,
                      FALSE, TRUE)
        ELSE Response("queryLatest", EmptyString, err, <<StatusOK>>,
                      MapBack(got), 0, FALSE, TRUE)

getCurrentStatus(st, err) ==
    LET q == [filter |-> FALSE, date |-> ZeroTime, limit |-> 1]
        got == GetAll(st, q, err)
    IN  IF err # "nil" /\ ~isErrFieldMismatch(err)
        THEN Response("queryLatest", EmptyString, err,
                      addPlainTextError(StorageErrorStatus(err)), <<>>, 0,
                      FALSE, TRUE)
        ELSE IF Len(got) = 0
        THEN \* statusOnDBList[0]: index out of range
             Response("queryLatest", EmptyString, err, <<>>, <<>>, 0, TRUE,
                      TRUE)
        ELSE Response("queryLatest", EmptyString, err, <<StatusOK>>,
                      MapBack(SubSeq(got, 1, 1)), 0, FALSE, TRUE)

\* -------------------------------------------------------------- actions
Init ==
    /\ store = {}
    /\ visible = {}
    /\ pending = EmptyBag
    /\ clock = InitClock
    /\ acked = {}
    /\ last = NoResponse

\* the server's clock advances
Tick ==
    /\ clock < MaxClock
    /\ clock' = clock + 1
    /\ last' = NoResponse
    /\ UNCHANGED <<store, visible, pending, acked>>

\* the datastore applies the index entries of a stored entity; an entity
\* that replaced another under the same key replaces it in the indexes too
indexApply(e) ==
    /\ e \in store \ visible
    /\ visible' = {x \in visible : x.id # e.id} \cup {e}
    /\ last' = NoResponse
    /\ UNCHANGED <<store, pending, clock, acked>>

InFlight == Cardinality(store) + BagCardinality(pending)

\* a faulty insertStatus: no return after the ReadEntity error, so the
\* zero-valued body is mapped and stored
insertStatusUnreadable_NoReturn ==
    /\ \E id \in AllocateIDs(store) :
          /\ store' = Put(store, id,
                          mapAPItoDBStatus(Body(0, EmptyString), clock))
          /\ last' = Response("submit", Garbage, "nil",
                              <<StatusInternalServerError, StatusCreated>>,
                              <<>>, id, FALSE, TRUE)
    /\ UNCHANGED <<visible, pending, clock, acked>>

\* insertStatus, request.ReadEntity fails
insertStatusUnreadable ==
    /\ last' = Response("submit", Garbage, "nil",
                        addPlainTextError(StatusInternalServerError), <<>>,
                        0, FALSE, FALSE)
    /\ UNCHANGED <<store, visible, pending, clock, acked>>

\* insertStatus up to the datastore call: ReadEntity and mapAPItoDBStatus
insertStatusMap(api) ==
    /\ InFlight < MaxId
    /\ pending' = pending (+) SetToBag({[api |-> api,
                                         db |-> mapAPItoDBStatus(api, clock)]})
    /\ last' = NoResponse
    /\ UNCHANGED <<store, visible, clock, acked>>

\* insertStatus from datastore.Put to the response
insertStatusPut(p, err) ==
    /\ BagIn(p, pending)
    /\ pending' = pending (-) SetToBag({p})
    /\ IF err # "nil"
       THEN /\ last' = Response("submit", p.api.changeDate, err,
                                addPlainTextError(StorageErrorStatus(err)),
                                <<>>, 0, FALSE, TRUE)
            /\ UNCHANGED <<store, acked>>
       ELSE \E id \in AllocateIDs(store) :
            /\ store' = Put(store, id, p.db)
            /\ acked' = acked \cup {[id |-> id, status |-> p.api.status,
                                     changeDate |-> p.api.changeDate]}
            /\ last' = Response("submit", p.api.changeDate, err,
                                <<StatusCreated>>, <<>>, id, FALSE, TRUE)
    /\ UNCHANGED <<visible, clock>>

getStatusRequest(dateString, err) ==
    /\ last' = getStatus(visible, dateString, err)
    /\ UNCHANGED <<store, visible, pending, clock, acked>>

getCurrentStatusRequest(err) ==
    /\ last' = getCurrentStatus(visible, err)
    /\ UNCHANGED <<store, visible, pending, clock, acked>>

Next ==
    \/ Tick
    \/ \E e \in store : indexApply(e)
    \/ insertStatusUnreadable
    \/ \E api \in SubmitInputs : insertStatusMap(api)
    \/ \E p \in BagToSet(pending), err \in PutErrs : insertStatusPut(p, err)
    \/ \E d \in DateFromInputs, err \in Errs : getStatusRequest(d, err)
    \/ \E err \in Errs : getCurrentStatusRequest(err)

Spec == Init /\ [][Next]_vars

\* ================================================================ claims
Ids(st) == {e.id : e \in st}
Range(f) == {f[i] : i \in DOMAIN f}
\* a record of a response body for the stored entity e, changeDate d
ApiRecord(e, d) == [id |-> e.id, status |-> e.Status, changeDate |-> d]
\* the whole second an instant falls in
WholeSecond(t) == t - (t % TicksPerSec)
IsDate(s) == s.form \in {"layout", "fraction", "offset"}
InLayout(s) == s.form \in {"layout", "fraction"}

\* ---- C1
\* C1: whatever the interleaving of submits and queries, no two stored records
\* share an id, and a stored record stays in the store with the same id,
\* status and changeDate.
UniqueIds == \A a, b \in store : a.id = b.id => a = b
C1_UniqueImmutable == []UniqueIds /\ [][store \subseteq store']_vars
\* two submits that were in flight together, with the same status and
\* changeDate, are stored under two ids
C1_Witness ==
    /\ last.op = "submit" /\ last.codes = <<StatusCreated>>
    /\ \E a, b \in store :
          a.id # b.id /\ a.Status = b.Status /\ a.ChangeDate = b.ChangeDate

\* ---- C2
\* C2: a queryAll with an absent or parseable dateFrom that meets no storage
\* error answers 200 with exactly the stored records whose changeDate is at
\* or after dateFrom (all of them when dateFrom is absent), each once with
\* its own id, in non-increasing changeDate order.
C2_QueryAllExact ==
    (last.op = "queryAll" /\ last.err = "nil"
        /\ (last.in = EmptyString \/ IsDate(last.in)))
    => /\ last.codes = <<StatusOK>>
       /\ \A i, j \in DOMAIN last.body :
             i # j => last.body[i].id # last.body[j].id
       /\ Range(last.body) =
             {ApiRecord(e, Layout(WholeSecond(e.ChangeDate))) :
                e \in {x \in store :
                         last.in = EmptyString \/ x.ChangeDate >= last.in.t}}
       /\ \A i, j \in DOMAIN last.body :
             i < j => last.body[i].changeDate.t >= last.body[j].changeDate.t
\* an unfiltered queryAll while the indexes hold every stored record, one of
\* them dated before the zero time
C2_Witness ==
    /\ last.op = "queryAll" /\ last.err = "nil" /\ last.in = EmptyString
    /\ last.codes = <<StatusOK>>
    /\ visible = store
    /\ \E e \in store : e.ChangeDate < ZeroTime

\* ---- C3
\* C3: on a non-empty store, a queryLatest that meets no storage error
\* answers 200 with exactly one record, the first record of an unfiltered
\* queryAll on the same store.
C3_LatestIsFirstOfAll ==
    (last.op = "queryLatest" /\ last.err = "nil" /\ store # {})
    => /\ last.codes = <<StatusOK>>
       /\ Len(last.body) = 1
       /\ LET all == getStatus(visible, EmptyString, "nil").body
          IN  Len(all) >= 1 /\ last.body[1] = all[1]
\* queryLatest answers a record that the unfiltered queryAll, run in the
\* same state, leaves out
C3_Witness ==
    /\ last.op = "queryLatest" /\ last.err = "nil"
    /\ last.codes = <<StatusOK>> /\ Len(last.body) = 1
    /\ visible = store
    /\ getStatus(visible, EmptyString, "nil").body = <<>>

\* ---- C4
\* C4: a submit of a status with a changeDate the service parses, answered
\* 201 with id N, is returned by every later queryAll whose dateFrom is at
\* or before that changeDate and that meets no storage error, as a record
\* with id N, that status and that changeDate; and N was the id of no record
\* stored before the submit.
C4_Returned ==
    (last.op = "queryAll" /\ last.err = "nil" /\ IsDate(last.in))
    => \A a \in acked :
          (InLayout(a.changeDate) /\ last.in.t <= a.changeDate.t)
          => /\ last.codes = <<StatusOK>>
             /\ \E i \in DOMAIN last.body :
                   last.body[i] = [id |-> a.id, status |-> a.status,
                                   changeDate |-> a.changeDate]
C4_Fresh ==
    (last'.op = "submit" /\ last'.codes = <<StatusCreated>>)
    => last'.id \notin Ids(store) /\ last'.id \in Ids(store')
C4_RoundTrip == []C4_Returned /\ [][C4_Fresh]_vars
\* the indexes hold every stored record, and a queryAll from the second of
\* a submit dated with a fraction of a second returns that record with the
\* fraction cut off
C4_Witness ==
    /\ last.op = "queryAll" /\ last.err = "nil" /\ last.in = Layout(2)
    /\ visible = store
    /\ \E a \in acked :
          /\ a.changeDate = Fraction(3)
          /\ \E i \in DOMAIN last.body :
                last.body[i] = [id |-> a.id, status |-> a.status,
                                changeDate |-> Layout(2)]

\* ---- C5
\* C5: every record stored by submit has the caller's changeDate when the
\* request's changeDate is present and parseable, and otherwise (absent,
\* empty or unparseable) a reading of the server's clock taken while the
\* request was served.
C5_ChangeDatePopulated ==
    \A a \in acked :
       \E e \in store :
          /\ e.id = a.id
          /\ IF a.changeDate # EmptyString /\ InLayout(a.changeDate)
             THEN e.ChangeDate = a.changeDate.t
             ELSE e.ChangeDate \in InitClock..clock
\* a submit with an unparseable changeDate was stored with the zero time
C5_Witness ==
    \E a \in acked :
       /\ a.changeDate = Garbage
       /\ \E e \in store : e.id = a.id /\ e.ChangeDate = ZeroTime

\* ---- C6
\* C6: a queryAll whose dateFrom is non-empty and not RFC3339 ends in 400:
\* no record list, no datastore query, no 503, no 500, no fault, whatever
\* the store holds and whatever the datastore would have answered.
C6_BadFilterRejected ==
    (last.op = "queryAll" /\ last.in # EmptyString /\ ~IsDate(last.in))
    => /\ last.codes = <<StatusBadRequest>>
       /\ last.body = <<>>
       /\ ~last.queried
       /\ ~last.fault
\* the rejected queryAll, on a store with records and a datastore out of
\* quota
C6_Witness ==
    /\ last.op = "queryAll" /\ last.in = Garbage /\ last.err = "quota"
    /\ last.codes = <<StatusBadRequest>>
    /\ store # {}

\* ---- C7
\* C7: in submit, queryAll and queryLatest, a datastore call that fails with
\* an error other than field mismatch ends the request in exactly one
\* response, 503 for quota exhaustion and 500 for any other error; never a
\* fault, never a success response.
C7_StorageErrorTranslated ==
    (last.op \in {"submit", "queryAll", "queryLatest"} /\ last.queried
        /\ last.err \in {"quota", "other"})
    => /\ last.codes = <<IF last.err = "quota"
                          THEN StatusServiceUnavailable
                          ELSE StatusInternalServerError>>
       /\ ~last.fault
       /\ last.body = <<>>
\* a queryLatest on an empty store whose read runs out of quota: 503, and
\* the empty result is not indexed
C7_Witness ==
    /\ last.op = "queryLatest" /\ last.err = "quota" /\ store = {}
    /\ last.codes = <<StatusServiceUnavailable>>

\* ---- C8
\* C8: when the read of queryAll or queryLatest reports field mismatch and
\* delivered records (those the indexes hold and the query selects), the
\* request ends in 200 with the records delivered, not in 500 or 503.
C8_Lower == IF last.in = EmptyString THEN ZeroTime ELSE last.in.t
C8_Delivered ==
    IF last.op = "queryAll"
    THEN {e \in visible : e.ChangeDate >= C8_Lower}
    ELSE {e \in visible : \A y \in visible : e.ChangeDate >= y.ChangeDate}
C8_MismatchTolerated ==
    (last.op \in {"queryAll", "queryLatest"} /\ last.queried
        /\ last.err = "mismatch" /\ C8_Delivered # {})
    => /\ last.codes = <<StatusOK>>
       /\ ~last.fault
       /\ last.op = "queryAll" =>
             Range(last.body) =
                {ApiRecord(e, Layout(WholeSecond(e.ChangeDate))) :
                   e \in C8_Delivered}
       /\ last.op = "queryLatest" =>
             /\ Len(last.body) = 1
             /\ last.body[1] \in
                   {ApiRecord(e, Layout(WholeSecond(e.ChangeDate))) :
                      e \in C8_Delivered}
\* a queryLatest under field mismatch on a store of two records
C8_Witness ==
    /\ last.op = "queryLatest" /\ last.err = "mismatch"
    /\ Cardinality(visible) = 2
    /\ last.codes = <<StatusOK>> /\ Len(last.body) = 1

\* ---- C9
\* C9: on an empty store, a queryLatest whose read succeeds ends in an
\* out-of-range fault: no response is written, neither 200 nor an error.
C9_EmptyStoreFault ==
    (last.op = "queryLatest" /\ last.err = "nil" /\ store = {})
    => last.fault /\ last.codes = <<>> /\ last.body = <<>>
C9_Witness ==
    /\ last.op = "queryLatest" /\ last.err = "nil" /\ store = {}
    /\ last.fault

\* ---- C10
\* C10: the store changes only in a submit that ends in 201, and that
\* submit adds exactly one record and leaves the others as they were; every
\* other step (queries, rejected requests, failed submits) leaves the store
\* unchanged.
C10_Step ==
    /\ store' # store
          => last'.op = "submit" /\ last'.codes = <<StatusCreated>>
    /\ (last'.op = "submit" /\ last'.codes = <<StatusCreated>>)
          => /\ store \subseteq store'
             /\ Cardinality(store') = Cardinality(store) + 1
====
